---- MODULE Spec2Model ----
(***************************************************************************)
(* Model of the openai-websearch MCP server: the CallTool request handler, *)
(* the two zod schemas, the two forwarding functions and, for revision     *)
(* 1.0.0, the conversion of a message list into the Responses API's        *)
(* instructions / input form.                                              *)
(*                                                                         *)
(* Two revisions of the server are modelled: 1.0.0 (src/unnamed/part_000)  *)
(* and 1.1.2 (src/src/index.ts).  They differ in WebSearchResponsesSchema  *)
(* and in performWebSearchResponses.                                       *)
(*                                                                         *)
(* JSON objects are functions from key names to values; an optional key    *)
(* that is not set is a key outside the DOMAIN.  A value whose JSON type   *)
(* is not fixed by its position (the `input` key: string or array)         *)
(* carries its type: [type |-> "string" | "array", value |-> ...].         *)
(*                                                                         *)
(* The state is kept per call: pc, request, parsed (the schema whose parse *)
(* ran), locals (of revision 1.0.0's performWebSearchResponses), fetched   *)
(* (the fetch calls made), response (what fetch settled with), thrown (the *)
(* error thrown inside the handler's try block) and result (what the       *)
(* caller gets).  OPENAI_API_KEY[c] is process.env.OPENAI_API_KEY of the   *)
(* process that serves call c.                                             *)
(***************************************************************************)
EXTENDS Integers, Sequences, FiniteSets, TLC

VARIABLES VERSION, OPENAI_API_KEY, pc, request, parsed, locals, fetched,
          response, thrown, result

vars == <<VERSION, OPENAI_API_KEY, pc, request, parsed, locals, fetched,
          response, thrown, result>>

(***************************************************************************)
(* Bounds of the model.                                                    *)
(***************************************************************************)
MaxLen == 3

(***************************************************************************)
(* The inputs.                                                             *)
(***************************************************************************)
Versions == {"1.0.0", "1.1.2"}

CallIds == {1}

\* two calls in flight at once, or the same call in two runs
ConcCallIds == {1, 2}

Keys == {"sk-key-1", "sk-key-2"}

ToolNames == {"web_search_chat_completion", "web_search_responses",
              "delete_everything"}

Roles == {"user", "assistant", "system", "developer"}

Contents == {"", "a"}

Messages == [role : Roles, content : Contents]

MessageSeqs == UNION {[1..n -> Messages] : n \in 0..MaxLen}

Models == {"gpt-4o-search-preview", "gpt-4o"}

EmptyObject == << >>

JsonString(s) == [type |-> "string", value |-> s]

JsonArray(a) == [type |-> "array", value |-> a]

\* An optional key: left out, or set to one of the values
Optional(key, values) == {EmptyObject} \cup {key :> v : v \in values}

WebSearchOptionsValues == {[search_context_size |-> "low"]}

ToolsValues == {<<[type |-> "web_search_preview"]>>}

\* Arguments in the shape of a chat completion request
ChatCompletionArguments ==
    {m @@ ms @@ w : m \in Optional("model", Models),
                    ms \in Optional("messages", MessageSeqs),
                    w \in Optional("web_search_options", WebSearchOptionsValues)}

\* Arguments in the shape of revision 1.0.0's responses request
ResponsesMessagesArguments ==
    {m @@ t @@ ms @@ p : m \in Optional("model", Models),
                         t \in {"tools" :> v : v \in ToolsValues},
                         ms \in Optional("messages", MessageSeqs),
                         p \in Optional("previous_response_id", {"resp_1"})}

\* Arguments in the shape of revision 1.1.2's responses request
ResponsesInputArguments ==
    {m @@ t @@ i : m \in Optional("model", {"gpt-4o"}),
                   t \in {"tools" :> v : v \in ToolsValues},
                   i \in Optional("input",
                           {JsonString(s) : s \in Contents}
                              \cup {JsonArray(a) : a \in MessageSeqs})}

Arguments == ChatCompletionArguments \cup ResponsesMessagesArguments
                \cup ResponsesInputArguments

\* request.params of a tools/call request; `arguments` is optional
Requests ==
    {[name |-> n, hasArguments |-> FALSE, arguments |-> EmptyObject] :
        n \in ToolNames}
    \cup {[name |-> n, hasArguments |-> TRUE, arguments |-> a] :
            n \in ToolNames, a \in Arguments}

Has(obj, key) == key \in DOMAIN obj

(***************************************************************************)
(* The zod schemas.  parse() collects one issue per violation, each with   *)
(* the path of the offending value (array indices count from 0), and       *)
(* throws a ZodError holding all of them; without issues it returns the    *)
(* value with the keys the schema does not name stripped.                  *)
(***************************************************************************)
Issue(code, path) == [code |-> code, path |-> path]

\* a required key whose value must be one of `allowed`
EnumIssues(obj, key, allowed) ==
    IF ~Has(obj, key) THEN <<Issue("invalid_type", <<key>>)>>
    ELSE IF obj[key] \notin allowed
         THEN <<Issue("invalid_enum_value", <<key>>)>>
         ELSE << >>

\* the elements k.. of an array of {role, content} objects found at `path`
RECURSIVE RoleIssues(_, _, _, _)
RoleIssues(messages, k, allowed, path) ==
    IF k > Len(messages) THEN << >>
    ELSE (IF messages[k].role \notin allowed
          THEN <<Issue("invalid_enum_value", path \o <<k - 1, "role">>)>>
          ELSE << >>)
         \o RoleIssues(messages, k + 1, allowed, path)

\* a required array of {role, content} objects
MessagesIssues(obj, key, allowed) ==
    IF ~Has(obj, key) THEN <<Issue("invalid_type", <<key>>)>>
    ELSE RoleIssues(obj[key], 1, allowed, <<key>>)

\* a required array of tool objects
RECURSIVE ToolTypeIssues(_, _, _)
ToolTypeIssues(tools, k, allowed) ==
    IF k > Len(tools) THEN << >>
    ELSE (IF tools[k].type \notin allowed
          THEN <<Issue("invalid_enum_value", <<"tools", k - 1, "type">>)>>
          ELSE << >>)
         \o ToolTypeIssues(tools, k + 1, allowed)

ToolsIssues(obj, allowed) ==
    IF ~Has(obj, "tools") THEN <<Issue("invalid_type", <<"tools">>)>>
    ELSE ToolTypeIssues(obj.tools, 1, allowed)

\* the optional web_search_options object
WebSearchOptionsIssues(obj) ==
    IF Has(obj, "web_search_options")
       /\ Has(obj.web_search_options, "search_context_size")
       /\ obj.web_search_options.search_context_size
             \notin {"low", "medium", "high"}
    THEN <<Issue("invalid_enum_value",
                 <<"web_search_options", "search_context_size">>)>>
    ELSE << >>

\* z.union([z.string(), z.array(z.object({role, content}))]): one
\* invalid_union issue at the key when no member of the union accepts
InputUnionIssues(obj, allowed) ==
    IF ~Has(obj, "input") THEN <<Issue("invalid_union", <<"input">>)>>
    ELSE IF obj.input.type = "array"
            /\ RoleIssues(obj.input.value, 1, allowed, <<"input">>) # << >>
         THEN <<Issue("invalid_union", <<"input">>)>>
         ELSE << >>

Strip(obj, keys) == [k \in (DOMAIN obj) \cap keys |-> obj[k]]

\* as WebSearchChatCompletionSchemaIssues, but parsing stops at the first
\* violation
WebSearchChatCompletionSchemaIssues_FirstOnly(args) ==
    LET all == EnumIssues(args, "model",
                    {"gpt-4o-search-preview", "gpt-4o-mini-search-preview"})
               \o MessagesIssues(args, "messages",
                      {"user", "assistant", "system", "developer"})
               \o WebSearchOptionsIssues(args)
    IN  IF all = << >> THEN << >> ELSE <<Head(all)>>

WebSearchChatCompletionSchemaIssues(args) ==
    EnumIssues(args, "model",
               {"gpt-4o-search-preview", "gpt-4o-mini-search-preview"})
    \o MessagesIssues(args, "messages",
                      {"user", "assistant", "system", "developer"})
    \o WebSearchOptionsIssues(args)

WebSearchChatCompletionSchemaData(args) ==
    Strip(args, {"model", "messages", "web_search_options"})

\* revision 1.0.0: model is any string, the conversation is `messages`
WebSearchResponsesSchemaIssues_1_0_0(args) ==
    (IF Has(args, "model") THEN << >>
     ELSE <<Issue("invalid_type", <<"model">>)>>)
    \o ToolsIssues(args, {"web_search_preview"})
    \o MessagesIssues(args, "messages", {"user", "assistant", "system"})

WebSearchResponsesSchemaData_1_0_0(args) ==
    Strip(args, {"model", "tools", "messages", "temperature", "max_tokens",
                 "top_p", "presence_penalty", "frequency_penalty",
                 "response_format", "truncation", "stream", "user",
                 "instructions", "store", "parallel_tool_calls",
                 "previous_response_id"})

\* revision 1.1.2: model is "gpt-4o", the conversation is `input`
WebSearchResponsesSchemaIssues_1_1_2(args) ==
    EnumIssues(args, "model", {"gpt-4o"})
    \o ToolsIssues(args,
                   {"web_search_preview", "web_search_preview_2025_03_11"})
    \o InputUnionIssues(args, {"user", "assistant", "system"})

WebSearchResponsesSchemaData_1_1_2(args) ==
    Strip(args, {"model", "tools", "input"})

(***************************************************************************)
(* performWebSearchResponses of revision 1.0.0, up to the request body:    *)
(* the local variables after each of its three steps.                      *)
(***************************************************************************)
\* as ProcessMessages, but the first system message is kept
RECURSIVE ProcessMessages_FirstSystem(_, _, _)
ProcessMessages_FirstSystem(messages, k, acc) ==
    IF k > Len(messages) THEN acc
    ELSE ProcessMessages_FirstSystem(messages, k + 1,
            IF messages[k].role = "system"
            THEN acc @@ ("instructions" :> messages[k].content)
            ELSE [acc EXCEPT !.userAndAssistantMessages =
                                Append(@, [role |-> messages[k].role,
                                           content |-> messages[k].content])])

\* params.messages.forEach(...) from element k on
RECURSIVE ProcessMessages(_, _, _)
ProcessMessages(messages, k, acc) ==
    IF k > Len(messages) THEN acc
    ELSE ProcessMessages(messages, k + 1,
            IF messages[k].role = "system"
            THEN ("instructions" :> messages[k].content) @@ acc
            ELSE [acc EXCEPT !.userAndAssistantMessages =
                                Append(@, [role |-> messages[k].role,
                                           content |-> messages[k].content])])

\* the for loop from index i down; 0 when it ends without a break
RECURSIVE LastUserIndex(_, _)
LastUserIndex(msgs, i) ==
    IF i < 1 THEN 0
    ELSE IF msgs[i].role = "user" THEN i
         ELSE LastUserIndex(msgs, i - 1)

\* let input = "", previousMessages = []; then the for loop
FindLastUserMessage(acc) ==
    LET msgs == acc.userAndAssistantMessages
        i == LastUserIndex(msgs, Len(msgs))
    IN  IF i = 0
        THEN acc @@ [input |-> "", previousMessages |-> << >>]
        ELSE acc @@ [input |-> msgs[i].content,
                     previousMessages |-> SubSeq(msgs, 1, i - 1)]

\* as UseLastMessage, but without the fallback
UseLastMessage_Never(acc) == acc

\* if (!input && userAndAssistantMessages.length > 0) { ... }
UseLastMessage(acc) ==
    LET msgs == acc.userAndAssistantMessages
    IN  IF acc.input = "" /\ Len(msgs) > 0
        THEN [acc EXCEPT !.input = msgs[Len(msgs)].content,
                         !.previousMessages = SubSeq(msgs, 1, Len(msgs) - 1)]
        ELSE acc

ReshapeMessages(messages) ==
    UseLastMessage(FindLastUserMessage(
        ProcessMessages(messages, 1, [userAndAssistantMessages |-> << >>])))

NoLocals == [userAndAssistantMessages |-> << >>]

(***************************************************************************)
(* The request bodies.  JSON.stringify leaves out a key whose value is     *)
(* undefined.                                                              *)
(***************************************************************************)
\* as ChatCompletionBody, but the parsed arguments are sent as they are
ChatCompletionBody_AsParams(params) == params

ChatCompletionBody(params) ==
    [model |-> params.model,
     messages |-> params.messages,
     web_search_options |->
        IF Has(params, "web_search_options") THEN params.web_search_options
        ELSE EmptyObject]

\* as ResponsesBody_1_0_0, but with `if (instructions)` for
\* `if (instructions !== undefined)`
ResponsesBody_1_0_0_Truthy(params, loc) ==
    [model |-> params.model, tools |-> params.tools,
     input |-> JsonString(loc.input)]
    @@ (IF Has(loc, "instructions") /\ loc.instructions # ""
        THEN "instructions" :> loc.instructions ELSE EmptyObject)
    @@ (IF Len(loc.previousMessages) > 0 /\ Has(params, "previous_response_id")
        THEN "previous_response_id" :> params.previous_response_id
        ELSE EmptyObject)

ResponsesBody_1_0_0(params, loc) ==
    [model |-> params.model, tools |-> params.tools,
     input |-> JsonString(loc.input)]
    @@ (IF Has(loc, "instructions")
        THEN "instructions" :> loc.instructions ELSE EmptyObject)
    @@ (IF Len(loc.previousMessages) > 0 /\ Has(params, "previous_response_id")
        THEN "previous_response_id" :> params.previous_response_id
        ELSE EmptyObject)

ResponsesBody_1_1_2(params) == params

ChatCompletionsUrl == "https://api.openai.com/v1/chat/completions"

ResponsesUrl == "https://api.openai.com/v1/responses"

(***************************************************************************)
(* What the caller of the handler gets: a result or a thrown Error.        *)
(* `message` is the text of the Error as the sequence of the parts it is   *)
(* concatenated from; `errors` is the issue list that                      *)
(* JSON.stringify(error.errors) writes into it.                            *)
(***************************************************************************)
NoResult == [kind |-> "none", name |-> "", message |-> << >>,
             errors |-> << >>, content |-> << >>]

\* new Error(message)
Thrown(message, errors) ==
    [kind |-> "error", name |-> "Error", message |-> message,
     errors |-> errors, content |-> << >>]

\* what Schema.parse throws: a ZodError, whose `errors` are the issues (its
\* own message is their JSON text)
ZodError(issues) ==
    [kind |-> "error", name |-> "ZodError", message |-> << >>,
     errors |-> issues, content |-> << >>]

\* fetch rejects with a TypeError when no response arrives
FetchFailed ==
    [kind |-> "error", name |-> "TypeError", message |-> <<"fetch failed">>,
     errors |-> << >>, content |-> << >>]

\* response.json() rejects with a SyntaxError when the body is not JSON
JsonSyntaxError ==
    [kind |-> "error", name |-> "SyntaxError",
     message |-> <<"Unexpected token < in JSON at position 0">>,
     errors |-> << >>, content |-> << >>]

\* { content: [{ type: "text", text: JSON.stringify(result, null, 2) }] }
Returned(json) ==
    [kind |-> "result", name |-> "", message |-> << >>, errors |-> << >>,
     content |-> <<[type |-> "text", text |-> [json |-> json, indent |-> 2]]>>]

\* as HandlerCatch, but the error is returned as the text of a result
HandlerCatch_AsContent(error) ==
    [kind |-> "result", name |-> "", message |-> << >>, errors |-> << >>,
     content |-> <<[type |-> "text",
                    text |-> [json |-> error.message, indent |-> 0]]>>]

\* the catch block of the handler: a ZodError becomes an Error with
\* `Invalid input: ${JSON.stringify(error.errors)}`, anything else is
\* thrown again
HandlerCatch(error) ==
    IF error.name = "ZodError"
    THEN Thrown(<<"Invalid input: ">>, error.errors)
    ELSE error

\* what fetch settled with
NoResponse == [kind |-> "none", status |-> 0, text |-> "", json |-> << >>]

OkResponse(json) ==
    [kind |-> "ok", status |-> 200, text |-> "", json |-> <<json>>]

NotOkResponse(status, text) ==
    [kind |-> "notok", status |-> status, text |-> text, json |-> << >>]

InvalidJsonResponse ==
    [kind |-> "invalidjson", status |-> 200, text |-> "", json |-> << >>]

Rejected == [kind |-> "rejected", status |-> 0, text |-> "", json |-> << >>]

\* what the remote endpoint can answer
RemoteJson == {[id |-> "resp_2"]}

ErrorStatuses == {429}

ErrorTexts == {"{\"error\":\"rate_limited\"}"}

\* a few requests, one for every way through the handler
ConcurrentRequests ==
    {[name |-> "web_search_chat_completion", hasArguments |-> FALSE,
      arguments |-> EmptyObject],
     [name |-> "delete_everything", hasArguments |-> TRUE,
      arguments |-> EmptyObject],
     [name |-> "web_search_chat_completion", hasArguments |-> TRUE,
      arguments |-> EmptyObject],
     [name |-> "web_search_chat_completion", hasArguments |-> TRUE,
      arguments |-> [model |-> "gpt-4o-search-preview",
                     messages |-> <<[role |-> "user", content |-> "a"]>>]],
     [name |-> "web_search_responses", hasArguments |-> TRUE,
      arguments |-> [model |-> "gpt-4o",
                     tools |-> <<[type |-> "web_search_preview"]>>,
                     messages |-> <<[role |-> "system", content |-> "a"],
                                    [role |-> "user", content |-> "a"]>>]],
     [name |-> "web_search_responses", hasArguments |-> TRUE,
      arguments |-> [model |-> "gpt-4o",
                     tools |-> <<[type |-> "web_search_preview"]>>,
                     input |-> JsonString("a")]]}

\* the handler has been called with `request` and has not run yet
Start(calls) ==
    /\ pc = [c \in calls |-> "validating"]
    /\ parsed = [c \in calls |-> "none"]
    /\ locals = [c \in calls |-> NoLocals]
    /\ fetched = [c \in calls |-> << >>]
    /\ response = [c \in calls |-> NoResponse]
    /\ thrown = [c \in calls |-> NoResult]
    /\ result = [c \in calls |-> NoResult]

\* one call
Init ==
    /\ VERSION \in Versions
    /\ OPENAI_API_KEY \in [CallIds -> Keys]
    /\ request \in [CallIds -> Requests]
    /\ Start(CallIds)

\* two calls of one server process
InitConc ==
    /\ VERSION \in Versions
    /\ \E key \in Keys : OPENAI_API_KEY = [c \in ConcCallIds |-> key]
    /\ request \in [ConcCallIds -> ConcurrentRequests]
    /\ Start(ConcCallIds)

\* the same call in two runs of the server that differ in the credential
InitRuns ==
    /\ VERSION \in Versions
    /\ OPENAI_API_KEY \in [ConcCallIds -> Keys]
    /\ OPENAI_API_KEY[1] # OPENAI_API_KEY[2]
    /\ \E r \in ConcurrentRequests : request = [c \in ConcCallIds |-> r]
    /\ Start(ConcCallIds)

\* the handler fails before the first await
Fail(c, schema, error) ==
    /\ pc' = [pc EXCEPT ![c] = "failed"]
    /\ parsed' = [parsed EXCEPT ![c] = schema]
    /\ thrown' = [thrown EXCEPT ![c] = error]
    /\ result' = [result EXCEPT ![c] = HandlerCatch(error)]
    /\ UNCHANGED <<VERSION, OPENAI_API_KEY, request, locals, fetched,
                   response>>

\* as Forward, but the local variables are one module-level variable that
\* all calls write
Forward_Shared(c, schema, loc, url, body) ==
    /\ pc' = [pc EXCEPT ![c] = "forwarding"]
    /\ parsed' = [parsed EXCEPT ![c] = schema]
    /\ locals' = [d \in DOMAIN locals |-> loc]
    /\ fetched' = [fetched EXCEPT ![c] =
          Append(@, [url |-> url,
                     authorization |-> <<"Bearer ", OPENAI_API_KEY[c]>>,
                     body |-> body])]
    /\ UNCHANGED <<VERSION, OPENAI_API_KEY, request, response, thrown,
                   result>>

\* the handler reaches `await fetch(url, {headers, body})`
Forward(c, schema, loc, url, body) ==
    /\ pc' = [pc EXCEPT ![c] = "forwarding"]
    /\ parsed' = [parsed EXCEPT ![c] = schema]
    /\ locals' = [locals EXCEPT ![c] = loc]
    /\ fetched' = [fetched EXCEPT ![c] =
          Append(@, [url |-> url,
                     authorization |-> <<"Bearer ", OPENAI_API_KEY[c]>>,
                     body |-> body])]
    /\ UNCHANGED <<VERSION, OPENAI_API_KEY, request, response, thrown,
                   result>>

\* if (!request.params.arguments) throw new Error("Arguments are required")
ArgumentsRequired(c) ==
    /\ pc[c] = "validating"
    /\ ~request[c].hasArguments
    /\ Fail(c, "none", Thrown(<<"Arguments are required">>, << >>))

\* case "web_search_chat_completion"
CallWebSearchChatCompletion(c) ==
    /\ pc[c] = "validating"
    /\ request[c].hasArguments
    /\ request[c].name = "web_search_chat_completion"
    /\ LET issues == WebSearchChatCompletionSchemaIssues(request[c].arguments)
           args == WebSearchChatCompletionSchemaData(request[c].arguments)
       IN  IF issues # << >>
           THEN Fail(c, "WebSearchChatCompletionSchema", ZodError(issues))
           ELSE Forward(c, "WebSearchChatCompletionSchema", NoLocals,
                        ChatCompletionsUrl, ChatCompletionBody(args))

\* case "web_search_responses", revision 1.0.0
CallWebSearchResponses_1_0_0(c) ==
    /\ pc[c] = "validating"
    /\ VERSION = "1.0.0"
    /\ request[c].hasArguments
    /\ request[c].name = "web_search_responses"
    /\ LET issues == WebSearchResponsesSchemaIssues_1_0_0(request[c].arguments)
           args == WebSearchResponsesSchemaData_1_0_0(request[c].arguments)
           loc == ReshapeMessages(args.messages)
       IN  IF issues # << >>
           THEN Fail(c, "WebSearchResponsesSchema", ZodError(issues))
           ELSE Forward(c, "WebSearchResponsesSchema", loc,
                        ResponsesUrl, ResponsesBody_1_0_0(args, loc))

\* case "web_search_responses", revision 1.1.2
CallWebSearchResponses_1_1_2(c) ==
    /\ pc[c] = "validating"
    /\ VERSION = "1.1.2"
    /\ request[c].hasArguments
    /\ request[c].name = "web_search_responses"
    /\ LET issues == WebSearchResponsesSchemaIssues_1_1_2(request[c].arguments)
           args == WebSearchResponsesSchemaData_1_1_2(request[c].arguments)
       IN  IF issues # << >>
           THEN Fail(c, "WebSearchResponsesSchema", ZodError(issues))
           ELSE Forward(c, "WebSearchResponsesSchema", NoLocals,
                        ResponsesUrl, ResponsesBody_1_1_2(args))

\* as UnknownTool, but the switch has no default and an unknown name runs
\* the chat completion case
UnknownTool_AsChatCompletion(c) ==
    /\ pc[c] = "validating"
    /\ request[c].hasArguments
    /\ request[c].name \notin {"web_search_chat_completion",
                               "web_search_responses"}
    /\ LET issues == WebSearchChatCompletionSchemaIssues(request[c].arguments)
           args == WebSearchChatCompletionSchemaData(request[c].arguments)
       IN  IF issues # << >>
           THEN Fail(c, "WebSearchChatCompletionSchema", ZodError(issues))
           ELSE Forward(c, "WebSearchChatCompletionSchema", NoLocals,
                        ChatCompletionsUrl, ChatCompletionBody(args))

\* default: throw new Error(`Unknown tool: ${request.params.name}`)
UnknownTool(c) ==
    /\ pc[c] = "validating"
    /\ request[c].hasArguments
    /\ request[c].name \notin {"web_search_chat_completion",
                               "web_search_responses"}
    /\ Fail(c, "none", Thrown(<<"Unknown tool: ", request[c].name>>, << >>))

\* the prefix the catch block of the forwarding function puts before
\* the message of an Error
ErrorPrefix(url) ==
    IF url = ChatCompletionsUrl THEN "Web search chat completion error: "
    ELSE "Web search responses error: "

\* the catch block of the forwarding function:
\* if (error instanceof Error) throw new Error(`${prefix}${error.message}`)
ForwarderCatch(url, error) ==
    Thrown(<<ErrorPrefix(url)>> \o error.message, << >>)

\* the url of the request call c waits for
Url(c) == fetched[c][Len(fetched[c])].url

\* the forwarding function throws `error` after fetch has settled
Reject(c, resp, error) ==
    /\ pc' = [pc EXCEPT ![c] = "failed"]
    /\ response' = [response EXCEPT ![c] = resp]
    /\ thrown' = [thrown EXCEPT ![c] = error]
    /\ result' = [result EXCEPT ![c] = HandlerCatch(error)]
    /\ UNCHANGED <<VERSION, OPENAI_API_KEY, request, parsed, locals, fetched>>

\* response.ok: return await response.json(), wrapped by the handler
FetchOk(c, json) ==
    /\ pc[c] = "forwarding"
    /\ pc' = [pc EXCEPT ![c] = "completed"]
    /\ response' = [response EXCEPT ![c] = OkResponse(json)]
    /\ result' = [result EXCEPT ![c] = Returned(json)]
    /\ UNCHANGED <<VERSION, OPENAI_API_KEY, request, parsed, locals, fetched,
                   thrown>>

\* response.ok, but response.json() rejects
FetchOkInvalidJson(c) ==
    /\ pc[c] = "forwarding"
    /\ Reject(c, InvalidJsonResponse, ForwarderCatch(Url(c), JsonSyntaxError))

\* as FetchNotOk, but a status that is not ok is answered by sending the
\* request again
FetchNotOk_Retry(c, status, text) ==
    /\ pc[c] = "forwarding"
    /\ Len(fetched[c]) < 3
    /\ response' = [response EXCEPT ![c] = NotOkResponse(status, text)]
    /\ fetched' = [fetched EXCEPT ![c] = Append(@, @[Len(@)])]
    /\ UNCHANGED <<VERSION, OPENAI_API_KEY, request, pc, parsed, locals,
                   thrown, result>>

\* as FetchNotOk, but the error text shows the headers of the request
FetchNotOk_WithHeaders(c, status, text) ==
    /\ pc[c] = "forwarding"
    /\ Reject(c, NotOkResponse(status, text),
              ForwarderCatch(Url(c),
                 Thrown(<<"OpenAI API Error: ", ToString(status), " - ", text>>
                           \o fetched[c][Len(fetched[c])].authorization,
                        << >>)))

\* !response.ok: throw new Error(`OpenAI API Error: ${status} - ${text}`),
\* caught and thrown again with the prefix
FetchNotOk(c, status, text) ==
    /\ pc[c] = "forwarding"
    /\ Reject(c, NotOkResponse(status, text),
              ForwarderCatch(Url(c),
                 Thrown(<<"OpenAI API Error: ", ToString(status), " - ", text>>,
                        << >>)))

\* as FetchRejects, but the request is sent again
FetchRejects_Retry(c) ==
    /\ pc[c] = "forwarding"
    /\ Len(fetched[c]) < 3
    /\ response' = [response EXCEPT ![c] = Rejected]
    /\ fetched' = [fetched EXCEPT ![c] = Append(@, @[Len(@)])]
    /\ UNCHANGED <<VERSION, OPENAI_API_KEY, request, pc, parsed, locals,
                   thrown, result>>

\* fetch rejects (no response): the TypeError is caught and thrown again
\* with the prefix
FetchRejects(c) ==
    /\ pc[c] = "forwarding"
    /\ Reject(c, Rejected, ForwarderCatch(Url(c), FetchFailed))

\* a step of call c
Handle(c) ==
    \/ ArgumentsRequired(c)
    \/ CallWebSearchChatCompletion(c)
    \/ CallWebSearchResponses_1_0_0(c)
    \/ CallWebSearchResponses_1_1_2(c)
    \/ UnknownTool(c)
    \/ \E json \in RemoteJson : FetchOk(c, json)
    \/ FetchOkInvalidJson(c)
    \/ \E status \in ErrorStatuses, text \in ErrorTexts :
          FetchNotOk(c, status, text)
    \/ FetchRejects(c)

Next == \E c \in CallIds : Handle(c)

Spec == Init /\ [][Next]_vars

NextConc == \E c \in ConcCallIds : Handle(c)

\* two calls of one process, in any interleaving
SpecConc == InitConc /\ [][NextConc]_vars

\* the handler runs when it is called, and fetch settles
FairSpec == SpecConc /\ \A c \in ConcCallIds : WF_vars(Handle(c))

\* two runs that differ in the credential
SpecRuns == InitRuns /\ [][NextConc]_vars

(***************************************************************************)
(* Vocabulary of the properties.                                           *)
(***************************************************************************)
\* the last index of `msgs` whose role is in `roles`, 0 if there is none
LastIndexOf(msgs, roles) ==
    LET S == {i \in 1..Len(msgs) : msgs[i].role \in roles}
    IN  IF S = {} THEN 0 ELSE CHOOSE i \in S : \A j \in S : j <= i

NonSystemRoles == Roles \ {"system"}

NonSystem(msgs) == SelectSeq(msgs, LAMBDA m : m.role # "system")

\* call c is a web_search_responses call with arguments
IsResponsesCall(c) ==
    /\ request[c].hasArguments
    /\ request[c].name = "web_search_responses"

\* call c is a web_search_chat_completion call with arguments
IsChatCompletionCall(c) ==
    /\ request[c].hasArguments
    /\ request[c].name = "web_search_chat_completion"

\* revision 1.0.0 has converted the messages of call c and sent the request
Reshaped(c) ==
    /\ VERSION = "1.0.0"
    /\ IsResponsesCall(c)
    /\ Len(fetched[c]) > 0

\* the conversation of a call that Reshaped
Conversation(c) == request[c].arguments.messages

\* the body of the request call c has sent
Body(c) == fetched[c][1].body

(***************************************************************************)
(* C1: whenever the conversation has a user message, `input` is the        *)
(* content of the last user message and the context (previousMessages) is  *)
(* the non-system messages before it, in order -- also when that content   *)
(* is the empty string.                                                    *)
(* Fails: the code takes an empty `input` for "no user message found".     *)
(***************************************************************************)
C1_InputIsLastUserMessage ==
    \A c \in CallIds :
        LET msgs == Conversation(c)
            j == LastIndexOf(msgs, {"user"})
        IN  (Reshaped(c) /\ j > 0) =>
               /\ locals[c].input = msgs[j].content
               /\ Body(c).input = JsonString(msgs[j].content)
               /\ locals[c].previousMessages = NonSystem(SubSeq(msgs, 1, j - 1))

(***************************************************************************)
(* C2: whenever the conversation has a system message, `instructions` is   *)
(* the content of the last one, however many precede it and wherever the   *)
(* other messages stand.                                                   *)
(***************************************************************************)
C2_InstructionsIsLastSystemMessage ==
    \A c \in CallIds :
        LET msgs == Conversation(c)
            j == LastIndexOf(msgs, {"system"})
        IN  (Reshaped(c) /\ j > 0) =>
               /\ Has(Body(c), "instructions")
               /\ Body(c).instructions = msgs[j].content

\* two system messages of different content with another message between
C2_Witness ==
    \E c \in CallIds :
        /\ Reshaped(c)
        /\ \E i, j, k \in 1..Len(Conversation(c)) :
              /\ i < j /\ j < k
              /\ Conversation(c)[i].role = "system"
              /\ Conversation(c)[j].role = "user"
              /\ Conversation(c)[k].role = "system"
              /\ Conversation(c)[i].content = "a"
              /\ Conversation(c)[k].content = ""
        /\ Body(c).instructions = ""

C4_FallbackOnlyWithoutUserMessage ==
    \A c \in CallIds :
        LET msgs == Conversation(c)
            u == LastIndexOf(msgs, {"user"})
            n == LastIndexOf(msgs, NonSystemRoles)
        IN  Reshaped(c) =>
               /\ (u = 0 /\ n > 0) =>
                     /\ locals[c].input = msgs[n].content
                     /\ locals[c].previousMessages
                           = NonSystem(SubSeq(msgs, 1, n - 1))
               /\ u > 0 =>
                     /\ locals[c].input = msgs[u].content
                     /\ locals[c].previousMessages
                           = NonSystem(SubSeq(msgs, 1, u - 1))

(***************************************************************************)
(* C5: a conversation without non-system messages that the schema accepts  *)
(* raises no error before the request is sent: one request is sent, with   *)
(* the empty string as `input`, without `instructions` when there is no    *)
(* message and with the content of the last system message otherwise.      *)
(***************************************************************************)
C5_NoNonSystemMessage ==
    \A c \in CallIds :
        LET args == request[c].arguments
        IN  (/\ VERSION = "1.0.0"
             /\ IsResponsesCall(c)
             /\ pc[c] # "validating"
             /\ Has(args, "model") /\ Has(args, "tools")
             /\ Has(args, "messages")
             /\ \A i \in 1..Len(args.messages) : args.messages[i].role = "system")
            => /\ Len(fetched[c]) = 1
               /\ fetched[c][1].url = ResponsesUrl
               /\ Body(c).input = JsonString("")
               /\ IF Len(args.messages) = 0
                  THEN ~Has(Body(c), "instructions")
                  ELSE /\ Has(Body(c), "instructions")
                       /\ Body(c).instructions
                             = args.messages[Len(args.messages)].content

\* system messages only, the last one with an empty content
C5_Witness ==
    \E c \in CallIds :
        /\ Reshaped(c)
        /\ Len(Conversation(c)) = 2
        /\ Conversation(c)[1] = [role |-> "system", content |-> "a"]
        /\ Conversation(c)[2] = [role |-> "system", content |-> ""]
        /\ Body(c).input = JsonString("")
        /\ pc[c] = "completed"

(***************************************************************************)
(* C6: a previous_response_id on the request is in the request body,       *)
(* unchanged, for every conversation; the context messages are not in the  *)
(* body.                                                                   *)
(* Fails: the code copies previous_response_id only when the context is    *)
(* not empty.                                                              *)
(***************************************************************************)
C6_PreviousResponseIdPassesThrough ==
    \A c \in CallIds :
        LET args == request[c].arguments
        IN  Reshaped(c) =>
               /\ Has(args, "previous_response_id") =>
                     /\ Has(Body(c), "previous_response_id")
                     /\ Body(c).previous_response_id = args.previous_response_id
               /\ DOMAIN Body(c) \subseteq
                     {"model", "tools", "input", "instructions",
                      "previous_response_id"}
               /\ Body(c).input.type = "string"

(***************************************************************************)
(* C7: web_search_responses sends a string as `input`: a conversation is   *)
(* converted first, a string `input` is sent as it is.                     *)
(* Fails: revision 1.1.2 sends the conversation as it is.                  *)
(***************************************************************************)
C7_ConversationIsReshaped ==
    \A c \in CallIds :
        LET args == request[c].arguments
        IN  (IsResponsesCall(c) /\ Len(fetched[c]) > 0) =>
               /\ Body(c).input.type = "string"
               /\ (Has(args, "input") /\ args.input.type = "string") =>
                     Body(c).input = args.input

(***************************************************************************)
(* C8: every chat completion request the schema accepts is sent to the     *)
(* chat completions endpoint as {model, messages, web_search_options},     *)
(* with the messages of the request, and the empty object for              *)
(* web_search_options the request leaves out.                              *)
(***************************************************************************)
ValidChatCompletionRequest(args) ==
    /\ Has(args, "model")
    /\ args.model \in {"gpt-4o-search-preview", "gpt-4o-mini-search-preview"}
    /\ Has(args, "messages")

C8_ChatCompletionBody ==
    \A c \in CallIds :
        LET args == request[c].arguments
        IN  (/\ IsChatCompletionCall(c)
             /\ pc[c] # "validating"
             /\ ValidChatCompletionRequest(args))
            => /\ Len(fetched[c]) = 1
               /\ fetched[c][1].url = ChatCompletionsUrl
               /\ DOMAIN Body(c) = {"model", "messages", "web_search_options"}
               /\ Body(c).model = args.model
               /\ Body(c).messages = args.messages
               /\ Has(args, "web_search_options") =>
                     Body(c).web_search_options = args.web_search_options
               /\ ~Has(args, "web_search_options") =>
                     DOMAIN Body(c).web_search_options = {}

\* no web_search_options, messages of three roles, a key to strip
C8_Witness ==
    \E c \in CallIds :
        /\ IsChatCompletionCall(c)
        /\ Len(fetched[c]) = 1
        /\ ~Has(request[c].arguments, "web_search_options")
        /\ Has(request[c].arguments, "tools")
        /\ Len(request[c].arguments.messages) = MaxLen
        /\ {"system", "developer", "user"} \subseteq
              {request[c].arguments.messages[i].role : i \in 1..MaxLen}
        /\ Body(c).messages = request[c].arguments.messages

(***************************************************************************)
(* C9: arguments that violate the schema of the operation make the call    *)
(* fail with "Invalid input: " and the issues of the schema, one at the    *)
(* path of every offending value, and no request is sent; a request is     *)
(* sent only after the schema has accepted the arguments.                  *)
(***************************************************************************)
\* the paths at which the arguments of call c violate its schema
OffendingPaths(c) ==
    LET args == request[c].arguments
        Missing(key) == IF Has(args, key) THEN {} ELSE {<<key>>}
        NotIn(key, allowed) ==
            IF Has(args, key) /\ args[key] \notin allowed THEN {<<key>>}
            ELSE {}
        BadRoles(msgs, allowed) ==
            {i \in 1..Len(msgs) : msgs[i].role \notin allowed}
    IN  IF request[c].name = "web_search_chat_completion"
        THEN Missing("model") \cup Missing("messages")
             \cup NotIn("model", {"gpt-4o-search-preview",
                                  "gpt-4o-mini-search-preview"})
        ELSE IF VERSION = "1.0.0"
        THEN Missing("model") \cup Missing("tools") \cup Missing("messages")
             \cup (IF Has(args, "messages")
                   THEN {<<"messages", i - 1, "role">> :
                           i \in BadRoles(args.messages,
                                          {"user", "assistant", "system"})}
                   ELSE {})
        ELSE Missing("model") \cup Missing("tools") \cup Missing("input")
             \cup NotIn("model", {"gpt-4o"})
             \cup (IF /\ Has(args, "input")
                      /\ args.input.type = "array"
                      /\ BadRoles(args.input.value,
                                  {"user", "assistant", "system"}) # {}
                   THEN {<<"input">>} ELSE {})

C9_ValidationPrecedesForwarding ==
    \A c \in CallIds :
        ((IsChatCompletionCall(c) \/ IsResponsesCall(c))
            /\ pc[c] # "validating")
        => /\ parsed[c] # "none"
           /\ OffendingPaths(c) # {} =>
                 /\ pc[c] = "failed"
                 /\ result[c].kind = "error"
                 /\ result[c].message = <<"Invalid input: ">>
                 /\ {result[c].errors[i].path : i \in 1..Len(result[c].errors)}
                       = OffendingPaths(c)
                 /\ fetched[c] = << >>
           /\ OffendingPaths(c) = {} => Len(fetched[c]) = 1

\* a chat completion request without model and without messages
C9_Witness ==
    \E c \in CallIds :
        /\ IsChatCompletionCall(c)
        /\ ~Has(request[c].arguments, "model")
        /\ ~Has(request[c].arguments, "messages")
        /\ pc[c] = "failed"
        /\ Len(result[c].errors) = 2
        /\ result[c].errors[1].path = <<"model">>
        /\ fetched[c] = << >>

(***************************************************************************)
(* C10: a name other than the two operations makes the call fail with      *)
(* "Unknown tool: " and the name, whatever the arguments, absent ones      *)
(* included, and neither a schema nor fetch is used.                       *)
(* Fails: without arguments the error is "Arguments are required".         *)
(***************************************************************************)
IsUnknownToolCall(c) ==
    request[c].name \notin {"web_search_chat_completion",
                            "web_search_responses"}

C10_UnknownToolAnyArguments ==
    \A c \in CallIds :
        (IsUnknownToolCall(c) /\ pc[c] # "validating") =>
            /\ pc[c] = "failed"
            /\ result[c].kind = "error"
            /\ result[c].message = <<"Unknown tool: ", request[c].name>>
            /\ parsed[c] = "none"
            /\ fetched[c] = << >>

(***************************************************************************)
(* C10 as amended: a name other than the two operations makes the call     *)
(* fail without a schema or fetch being used; the error is "Unknown        *)
(* tool: " and the name when the request has arguments, and "Arguments     *)
(* are required" when it has none.                                         *)
(***************************************************************************)
C10_UnknownToolAmended ==
    \A c \in CallIds :
        (IsUnknownToolCall(c) /\ pc[c] # "validating") =>
            /\ pc[c] = "failed"
            /\ result[c].kind = "error"
            /\ result[c].message =
                  IF request[c].hasArguments
                  THEN <<"Unknown tool: ", request[c].name>>
                  ELSE <<"Arguments are required">>
            /\ parsed[c] = "none"
            /\ fetched[c] = << >>

\* an unknown name with arguments that the chat completion schema accepts
C10_Witness ==
    \E c \in CallIds :
        /\ request[c].name = "delete_everything"
        /\ request[c].hasArguments
        /\ ValidChatCompletionRequest(request[c].arguments)
        /\ pc[c] = "failed"
        /\ result[c].message = <<"Unknown tool: ", "delete_everything">>

(***************************************************************************)
(* C11: when the endpoint answers with a status that is not ok, the call   *)
(* fails with an Error whose text has the status and the body text as      *)
(* received, after the prefix of the operation; the request is not sent    *)
(* again: one fetch call has been made.                                    *)
(***************************************************************************)
C11_RemoteErrorCarriesStatusAndBody ==
    \A c \in CallIds :
        response[c].kind = "notok" =>
            /\ pc[c] = "failed"
            /\ result[c].kind = "error"
            /\ result[c].message =
                  <<IF request[c].name = "web_search_chat_completion"
                    THEN "Web search chat completion error: "
                    ELSE "Web search responses error: ",
                    "OpenAI API Error: ", ToString(response[c].status),
                    " - ", response[c].text>>
            /\ Len(fetched[c]) = 1

\* 429 with {"error":"rate_limited"} for a chat completion request
C11_Witness ==
    \E c \in CallIds :
        /\ IsChatCompletionCall(c)
        /\ response[c] = NotOkResponse(429, "{\"error\":\"rate_limited\"}")
        /\ pc[c] = "failed"
        /\ result[c].message[3] = "429"
        /\ result[c].message[5] = "{\"error\":\"rate_limited\"}"
        /\ Len(fetched[c]) = 1

(***************************************************************************)
(* C12: the error the validator or the forwarder throws is the error the   *)
(* caller gets, unchanged; no error becomes a result, and a result is the  *)
(* payload of the endpoint wrapped as content.                             *)
(* Fails: the handler turns the ZodError of the validator into an Error    *)
(* with the text "Invalid input: " and the issues.                         *)
(***************************************************************************)
\* the remote payload as the handler wraps it
WrappedPayload(c) ==
    <<[type |-> "text", text |-> [json |-> response[c].json[1], indent |-> 2]]>>

C12_ErrorsPropagateUnchanged ==
    \A c \in CallIds :
        /\ thrown[c].kind = "error" => result[c] = thrown[c]
        /\ pc[c] = "failed" => thrown[c].kind = "error"
        /\ result[c].kind = "result" <=> response[c].kind = "ok"
        /\ result[c].kind = "result" => result[c].content = WrappedPayload(c)

(***************************************************************************)
(* C12 as amended: an error of the forwarder, and an error the handler     *)
(* itself throws, reaches the caller unchanged; the ZodError of the        *)
(* validator reaches the caller as an Error whose text is "Invalid         *)
(* input: " and all the issues of the ZodError; no error becomes a result, *)
(* and a result is the payload of the endpoint wrapped as content.         *)
(***************************************************************************)
C12_ErrorsPropagateAmended ==
    \A c \in CallIds :
        /\ thrown[c].kind = "error" =>
              /\ result[c].kind = "error"
              /\ thrown[c].name # "ZodError" => result[c] = thrown[c]
              /\ thrown[c].name = "ZodError" =>
                    /\ result[c].name = "Error"
                    /\ result[c].message = <<"Invalid input: ">>
                    /\ result[c].errors = thrown[c].errors
        /\ pc[c] = "failed" => thrown[c].kind = "error"
        /\ result[c].kind = "result" <=> response[c].kind = "ok"
        /\ result[c].kind = "result" => result[c].content = WrappedPayload(c)

\* a transport failure reaches the caller as the forwarder threw it
C12_Witness ==
    \E c \in CallIds :
        /\ IsResponsesCall(c)
        /\ response[c].kind = "rejected"
        /\ thrown[c].message = <<"Web search responses error: ", "fetch failed">>
        /\ result[c] = thrown[c]

(***************************************************************************)
(* C13: a call goes from validating to forwarding to completed, or from    *)
(* validating or forwarding to failed; completed and failed are final,     *)
(* the request is sent once, on the way from validating to forwarding, and *)
(* every call ends completed or failed when the handler runs and fetch     *)
(* settles.                                                                *)
(***************************************************************************)
Transitions ==
    {<<"validating", "forwarding">>, <<"validating", "failed">>,
     <<"forwarding", "completed">>, <<"forwarding", "failed">>}

CallState(c) ==
    <<pc[c], request[c], parsed[c], locals[c], fetched[c], response[c],
      thrown[c], result[c]>>

LegalStep(c) ==
    /\ pc'[c] # pc[c] => <<pc[c], pc'[c]>> \in Transitions
    /\ pc[c] \in {"completed", "failed"} => CallState(c)' = CallState(c)
    /\ fetched'[c] # fetched[c] =>
          /\ pc[c] = "validating" /\ pc'[c] = "forwarding"
          /\ Len(fetched'[c]) = 1

C13_StateMachine ==
    /\ [][\A c \in ConcCallIds : LegalStep(c)]_vars
    /\ \A c \in ConcCallIds : <>(pc[c] \in {"completed", "failed"})

\* one call completed, the other failed after its request was sent
C13_Witness ==
    /\ pc[1] = "completed"
    /\ pc[2] = "failed"
    /\ Len(fetched[2]) = 1

(***************************************************************************)
(* C14: whatever the interleaving of two calls, a call makes at most one   *)
(* fetch call, a call that has not ended can always take its next step, a  *)
(* step of one call changes nothing of the other, and two calls with the   *)
(* same arguments send the same body and, given the same response, end     *)
(* with the same result.                                                   *)
(***************************************************************************)
Independent ==
    \A c \in ConcCallIds :
        /\ Len(fetched[c]) <= 1
        /\ pc[c] \in {"validating", "forwarding"} => ENABLED Handle(c)
        /\ \A d \in ConcCallIds \ {c} :
              request[c] = request[d] =>
                 /\ (fetched[c] # << >> /\ fetched[d] # << >>) =>
                       /\ fetched[c] = fetched[d]
                       /\ locals[c] = locals[d]
                 /\ (/\ pc[c] \in {"completed", "failed"}
                     /\ pc[d] \in {"completed", "failed"}
                     /\ response[c] = response[d])
                    => result[c] = result[d]

OneCallPerStep ==
    \A c \in ConcCallIds :
        CallState(c)' # CallState(c) =>
            \A d \in ConcCallIds \ {c} : CallState(d)' = CallState(d)

C14_IndependentCalls == []Independent /\ [][OneCallPerStep]_vars

\* both requests in flight at once, with different bodies
C14_Witness ==
    /\ pc[1] = "forwarding"
    /\ pc[2] = "forwarding"
    /\ fetched[1][1].url # fetched[2][1].url
    /\ locals[1] # locals[2]

(***************************************************************************)
(* C15: two runs of the same call that differ in the credential and get    *)
(* the same response (or both none) fail with the same error, and no part  *)
(* of the text of an error is the credential or the Authorization header.  *)
(***************************************************************************)
C15_ErrorsWithoutCredential ==
    \A c \in ConcCallIds :
        pc[c] = "failed" =>
            /\ \A i \in 1..Len(result[c].message) :
                  /\ result[c].message[i] \notin Keys
                  /\ result[c].message[i] # "Bearer "
            /\ \A d \in ConcCallIds :
                  (pc[d] = "failed" /\ response[d] = response[c]) =>
                      result[d] = result[c]

\* both runs sent their credential and failed on the same 429
C15_Witness ==
    /\ fetched[1] # << >> /\ fetched[2] # << >>
    /\ fetched[1][1].authorization # fetched[2][1].authorization
    /\ response[1].kind = "notok"
    /\ response[2] = response[1]
    /\ pc[1] = "failed" /\ pc[2] = "failed"
    /\ result[1] = result[2]

====
